---- MODULE Spec2Model ----
(***************************************************************************)
(* A model of waybackcrawl.py: one run of the command line program, from   *)
(* argument parsing through fetch, classification, persistence and the     *)
(* summary.  URLs and arguments are TLA+ strings; JSON values are records  *)
(* carrying a type tag.                                                    *)
(***************************************************************************)
EXTENDS Integers, Sequences, FiniteSets, TLC

VARIABLES argv, pc, output_file, results, response, urls, idx, ret,
          executor, writers, files, events

vars == <<argv, pc, output_file, results, response, urls, idx, ret,
          executor, writers, files, events>>

(* ---------------------------------------------------------------------- *)
(* Bounds                                                                  *)
(* ---------------------------------------------------------------------- *)

\* largest number of rows after the header row in a modelled API response
MaxRows == 2

(* ---------------------------------------------------------------------- *)
(* Strings                                                                 *)
(* ---------------------------------------------------------------------- *)

CharAt(s, j) == SubSeq(s, j, j)

UpperToLower ==
    ("A" :> "a") @@ ("B" :> "b") @@ ("C" :> "c") @@ ("D" :> "d") @@
    ("E" :> "e") @@ ("F" :> "f") @@ ("G" :> "g") @@ ("H" :> "h") @@
    ("I" :> "i") @@ ("J" :> "j") @@ ("K" :> "k") @@ ("L" :> "l") @@
    ("M" :> "m") @@ ("N" :> "n") @@ ("O" :> "o") @@ ("P" :> "p") @@
    ("Q" :> "q") @@ ("R" :> "r") @@ ("S" :> "s") @@ ("T" :> "t") @@
    ("U" :> "u") @@ ("V" :> "v") @@ ("W" :> "w") @@ ("X" :> "x") @@
    ("Y" :> "y") @@ ("Z" :> "z")

\* re.I: a character of the text is compared after case folding
UpperCase == DOMAIN UpperToLower

Fold(c) == IF c \in UpperCase THEN UpperToLower[c] ELSE c

\* a literal piece of a pattern: one singleton character class per character
Lit(s) == [k \in 1..Len(s) |-> {CharAt(s, k)}]

Digits == {"0", "1", "2", "3", "4", "5", "6", "7", "8", "9"}

\* a pattern of the table: a sequence of character classes, optionally
\* followed by the group (\?|$)
Pat(atoms, tail) == [atoms |-> atoms, tail |-> tail]

\* (\?|$) at position j of u: a literal "?", or the end of the string ($ also
\* matches just before a newline that ends the string)
TailOk(u, j) ==
    \/ j = Len(u) + 1
    \/ j <= Len(u) /\ CharAt(u, j) = "?"
    \/ j = Len(u) /\ CharAt(u, j) = "\n"

MatchAt(p, u, i) ==
    LET n == Len(p.atoms) IN
    /\ i + n - 1 <= Len(u)
    /\ \A k \in 1..n : Fold(CharAt(u, i + k - 1)) \in p.atoms[k]
    /\ (p.tail = "q_or_end" => TailOk(u, i + n))

\* re.search(pattern, url, re.I): unanchored, any start position
Search(p, u) == \E i \in 1..(Len(u) + 1) : MatchAt(p, u, i)

(* ---------------------------------------------------------------------- *)
(* The rule table and the classifier                                       *)
(* ---------------------------------------------------------------------- *)

\* faulty variant: the categories visited in alphabetical order
CategoryOrder_alphabetical == <<"admin", "api", "configs", "js", "redirects">>

\* declaration order of the keys of CATEGORIES, the order of .items()
CategoryOrder == <<"js", "api", "admin", "redirects", "configs">>

CATEGORIES ==
    [js        |-> << Pat(Lit(".js"), "q_or_end"),
                      Pat(Lit("application/javascript"), "none") >>,
     api       |-> << Pat(Lit("/api/v") \o <<Digits>> \o Lit("/"), "none"),
                      Pat(Lit("graphql"), "none"),
                      Pat(Lit(".json"), "q_or_end") >>,
     admin     |-> << Pat(Lit("admin"), "none"),
                      Pat(Lit("dashboard"), "none"),
                      Pat(Lit("login"), "none"),
                      Pat(Lit("wp-admin"), "none") >>,
     redirects |-> << Pat(Lit("url="), "none"),
                      Pat(Lit("next="), "none"),
                      Pat(Lit("redirect="), "none") >>,
     configs   |-> << Pat(Lit(".env"), "none"),
                      Pat(Lit("config."), "none"),
                      Pat(Lit(".git/"), "none") >>]

\* the inner loop of categorize_url: the first pattern of the list, from
\* position k on, that matches
RECURSIVE AnyPattern(_, _, _)
AnyPattern(patterns, k, u) ==
    IF k > Len(patterns) THEN FALSE
    ELSE IF Search(patterns[k], u) THEN TRUE
    ELSE AnyPattern(patterns, k + 1, u)

\* the outer loop of categorize_url, from category c of the order on
RECURSIVE CategorizeFrom(_, _)
CategorizeFrom(c, u) ==
    IF c > Len(CategoryOrder) THEN "other"
    ELSE IF AnyPattern(CATEGORIES[CategoryOrder[c]], 1, u)
         THEN CategoryOrder[c]
         ELSE CategorizeFrom(c + 1, u)

categorize_url(u) == CategorizeFrom(1, u)

(* ---------------------------------------------------------------------- *)
(* JSON values of the API response                                         *)
(* ---------------------------------------------------------------------- *)

\* an element of a row: a string, a number, or a nested array
JStr(s) == [t |-> "str", s |-> s]
JNum == [t |-> "num", s |-> "42"]
JNested == [t |-> "arr", s |-> ""]

\* a row of the response: an array of elements, or a bare string or number
RowArr(items) == [t |-> "arr", s |-> "", e |-> items]
RowStr(s) == [t |-> "str", s |-> s, e |-> <<>>]
RowNum == [t |-> "num", s |-> "42", e |-> <<>>]

Header == RowArr(<<JStr("original")>>)

URLS ==
    {"http://x.com/app.js",
     "http://x.com/APP.JS?v=2",
     "http://example.com/api/v1/admin",
     "http://x.com/wp-admin/login.php",
     "http://x.com/?redirect=http://y.com",
     "http://x.com/.env",
     "http://x.com/app.jsx"}

WellFormedRows == {RowArr(<<JStr(u)>>) : u \in URLS}

MalformedRows ==
    {RowStr("http://x.com/b"), RowNum, RowArr(<<>>), RowArr(<<JNum>>),
     RowArr(<<JNested>>)}

RowUniverse == WellFormedRows \cup MalformedRows

SeqsUpTo(S, n) == UNION {[1..k -> S] : k \in 0..n}

Bodies == {<<>>} \cup {<<Header>> \o rows : rows \in SeqsUpTo(RowUniverse, MaxRows)}

NoResponse == [kind |-> "none", body |-> <<>>]

Responses ==
    {[kind |-> k, body |-> <<>>] :
        k \in {"transport_error", "timeout", "non_json", "json_object"}}
    \cup {[kind |-> "json", body |-> b] : b \in Bodies}

(* ---------------------------------------------------------------------- *)
(* fetch_urls                                                              *)
(* ---------------------------------------------------------------------- *)

Range(f) == {f[k] : k \in DOMAIN f}

\* url[0] for one row of the response
Subscript0(row) ==
    CASE row.t = "arr" ->
            IF row.e = <<>> THEN [exc |-> "IndexError", val |-> JNum]
            ELSE [exc |-> "", val |-> row.e[1]]
      [] row.t = "str" ->
            IF row.s = "" THEN [exc |-> "IndexError", val |-> JNum]
            ELSE [exc |-> "", val |-> JStr(CharAt(row.s, 1))]
      [] OTHER -> [exc |-> "TypeError", val |-> JNum]

\* response.json()[1:]
RowsAfterHeader(body) == IF body = <<>> THEN <<>> ELSE Tail(body)

\* everything inside the try block: the GET, the decoding, the comprehension
\* and set(); exc names the exception raised, if any
TryFetch(r) ==
    CASE r.kind = "transport_error" -> [exc |-> "ConnectionError", set |-> {}]
      [] r.kind = "timeout" -> [exc |-> "Timeout", set |-> {}]
      [] r.kind = "non_json" -> [exc |-> "JSONDecodeError", set |-> {}]
      [] r.kind = "json_object" -> [exc |-> "TypeError", set |-> {}]
      [] OTHER ->
            LET rows == RowsAfterHeader(r.body)
                firsts == [k \in DOMAIN rows |-> Subscript0(rows[k])]
            IN  IF \E k \in DOMAIN rows : firsts[k].exc # ""
                THEN [exc |-> "row", set |-> {}]
                ELSE IF \E k \in DOMAIN rows : firsts[k].val.t = "arr"
                THEN [exc |-> "TypeError", set |-> {}]
                ELSE [exc |-> "", set |-> {firsts[k].val : k \in DOMAIN rows}]

\* list(set(...)): the elements of the set in some order
ListsOf(S) == {l \in [1..Cardinality(S) -> S] : Range(l) = S}

\* faulty variant: list(...) without set(), repeated rows stay repeated
fetch_urls_nodedup(r) ==
    LET t == TryFetch(r)
        rows == RowsAfterHeader(r.body)
    IN  IF t.exc # "" THEN {<<>>}
        ELSE {[k \in DOMAIN rows |-> Subscript0(rows[k]).val]}

\* the values fetch_urls can return for response r
fetch_urls(r) ==
    LET t == TryFetch(r) IN IF t.exc # "" THEN {<<>>} ELSE ListsOf(t.set)

(* ---------------------------------------------------------------------- *)
(* Command line                                                            *)
(* ---------------------------------------------------------------------- *)

StartsWith(s, prefix) ==
    Len(s) >= Len(prefix) /\ SubSeq(s, 1, Len(prefix)) = prefix

\* s.split(sep) for a one-character separator: the pieces of s[start..],
\* scanning from position j
RECURSIVE SplitFrom(_, _, _, _)
SplitFrom(s, sep, start, j) ==
    IF j > Len(s) THEN <<SubSeq(s, start, Len(s))>>
    ELSE IF CharAt(s, j) = sep
         THEN <<SubSeq(s, start, j - 1)>> \o SplitFrom(s, sep, j + 1, j + 1)
         ELSE SplitFrom(s, sep, start, j + 1)

Split(s, sep) == SplitFrom(s, sep, 1, 1)

DefaultOutput == "wayback_results.json"

\* the value of output_file the main block computes from sys.argv
ParseOutput(args) ==
    IF Len(args) > 2 /\ StartsWith(args[3], "--output=")
    THEN Split(args[3], "=")[2]
    ELSE DefaultOutput

\* sys.argv of the modelled runs (argv[1] is the program name)
ArgvUniverse ==
    {<<"waybackcrawl.py">>,
     <<"waybackcrawl.py", "example.com">>,
     <<"waybackcrawl.py", "example.com", "--output=out.json">>,
     <<"waybackcrawl.py", "example.com", "--output=a=b.json">>,
     <<"waybackcrawl.py", "example.com", "--output=">>,
     <<"waybackcrawl.py", "example.com", "-o=out.json">>}

(* ---------------------------------------------------------------------- *)
(* State                                                                   *)
(* ---------------------------------------------------------------------- *)

AllCategories == <<"js", "api", "admin", "redirects", "configs", "other">>

\* faulty variant: the 'other' key is not seeded
InitResults_no_other == [c \in Range(CategoryOrder) |-> <<>>]

\* self.results as __init__ leaves it
InitResults == [c \in Range(CategoryOrder) \cup {"other"} |-> <<>>]

\* iteration order of self.results.items(): insertion order of the keys
ResultsOrder == SelectSeq(AllCategories, LAMBDA c : c \in DOMAIN results)

max_workers == 20

NoExecutor == [state |-> "none", max_workers |-> 0, submitted |-> 0]

Ev(e) == [e |-> e, cat |-> "", n |-> 0]

Init ==
    /\ argv \in ArgvUniverse
    /\ pc = "main"
    /\ output_file = ""
    /\ results = << >>
    /\ response = NoResponse
    /\ urls = <<>>
    /\ idx = 0
    /\ ret = FALSE
    /\ executor = NoExecutor
    /\ writers = {}
    /\ files = << >>
    /\ events = <<>>

(* ---------------------------------------------------------------------- *)
(* The main block                                                          *)
(* ---------------------------------------------------------------------- *)

\* len(sys.argv) < 2: usage message, exit status 1
Usage ==
    /\ pc = "main"
    /\ Len(argv) < 2
    /\ pc' = "exit1"
    /\ events' = Append(events, Ev("usage"))
    /\ UNCHANGED <<argv, output_file, results, response, urls, idx, ret,
                   executor, writers, files>>

\* domain and output_file are read from sys.argv and the scanner is built
Construct ==
    /\ pc = "main"
    /\ Len(argv) >= 2
    /\ output_file' = ParseOutput(argv)
    /\ results' = InitResults
    /\ pc' = "scan"
    /\ UNCHANGED <<argv, response, urls, idx, ret, executor, writers, files,
                   events>>

(* ---------------------------------------------------------------------- *)
(* scan                                                                    *)
(* ---------------------------------------------------------------------- *)

\* the progress line printed before fetch_urls is called
ScanBegin ==
    /\ pc = "scan"
    /\ events' = Append(events, Ev("progress"))
    /\ pc' = "fetch"
    /\ UNCHANGED <<argv, output_file, results, response, urls, idx, ret,
                   executor, writers, files>>

\* fetch_urls: one GET, whose outcome the network chooses
Fetch ==
    /\ pc = "fetch"
    /\ \E r \in Responses :
        /\ response' = r
        /\ \E l \in fetch_urls(r) : urls' = l
        /\ events' = IF TryFetch(r).exc # ""
                     THEN events \o <<Ev("GET"), Ev("api_error")>>
                     ELSE Append(events, Ev("GET"))
    /\ pc' = "check"
    /\ UNCHANGED <<argv, output_file, results, idx, ret, executor, writers,
                   files>>

\* if not urls: return False
ScanEmpty ==
    /\ pc = "check"
    /\ urls = <<>>
    /\ events' = Append(events, Ev("no_urls"))
    /\ ret' = FALSE
    /\ pc' = "after_scan"
    /\ UNCHANGED <<argv, output_file, results, response, urls, idx,
                   executor, writers, files>>

\* the count line, and the with statement entering the pool
ScanPool ==
    /\ pc = "check"
    /\ urls # <<>>
    /\ events' = Append(events, [e |-> "categorizing", cat |-> "", n |-> Len(urls)])
    /\ executor' = [state |-> "open", max_workers |-> max_workers, submitted |-> 0]
    /\ idx' = 1
    /\ pc' = "loop"
    /\ UNCHANGED <<argv, output_file, results, response, urls, ret, writers,
                   files>>

\* faulty variant: the loop body handed to the pool and run by a worker
LoopBody_submit(res, ex, u) ==
    [results |-> [res EXCEPT ![categorize_url(u.s)] = Append(@, u)],
     executor |-> [ex EXCEPT !.submitted = @ + 1],
     thread |-> "Worker"]

\* faulty variant: the URL inserted at the front of the list
LoopBody_prepend(res, ex, u) ==
    [results |-> [res EXCEPT ![categorize_url(u.s)] = <<u>> \o @],
     executor |-> ex,
     thread |-> "MainThread"]

\* the loop body for one URL: the category is computed and the URL appended;
\* thread is the thread that did it, submitted the tasks handed to the pool
LoopBody(res, ex, u) ==
    [results |-> [res EXCEPT ![categorize_url(u.s)] = Append(@, u)],
     executor |-> ex,
     thread |-> "MainThread"]

\* one iteration of the for loop over a string
ScanStep ==
    /\ pc = "loop"
    /\ idx <= Len(urls)
    /\ urls[idx].t = "str"
    /\ LET b == LoopBody(results, executor, urls[idx]) IN
        /\ results' = b.results
        /\ executor' = b.executor
        /\ writers' = writers \cup {b.thread}
    /\ events' = Append(events, [e |-> "classify", cat |-> "", n |-> idx])
    /\ idx' = idx + 1
    /\ UNCHANGED <<argv, pc, output_file, response, urls, ret, files>>

\* re.search raises TypeError on a value that is no string: the with
\* statement shuts the pool down and the exception ends the process
ScanTypeError ==
    /\ pc = "loop"
    /\ idx <= Len(urls)
    /\ urls[idx].t # "str"
    /\ executor' = [executor EXCEPT !.state = "shutdown"]
    /\ pc' = "crashed"
    /\ UNCHANGED <<argv, output_file, results, response, urls, idx, ret,
                   writers, files, events>>

\* the loop is over: the pool is shut down and scan returns True
ScanReturn ==
    /\ pc = "loop"
    /\ idx > Len(urls)
    /\ executor' = [executor EXCEPT !.state = "shutdown"]
    /\ ret' = TRUE
    /\ pc' = "after_scan"
    /\ UNCHANGED <<argv, output_file, results, response, urls, idx, writers,
                   files, events>>

(* ---------------------------------------------------------------------- *)
(* After scan: save_results and print_summary                              *)
(* ---------------------------------------------------------------------- *)

\* faulty variant: the result of scan ignored
AfterScan_always(r) == "save"

\* if scanner.scan(): ...
AfterScan(r) == IF r THEN "save" ELSE "exit0"

MainBranch ==
    /\ pc = "after_scan"
    /\ pc' = AfterScan(ret)
    /\ UNCHANGED <<argv, output_file, results, response, urls, idx, ret,
                   executor, writers, files, events>>

\* faulty variant: a failure of save_results swallowed
AfterSave_swallow(outcome) == "summary"

\* where the main block goes after save_results: an exception raised in it
\* is not caught
AfterSave(outcome) == IF outcome = "ok" THEN "summary" ELSE "crashed"

\* what json.dump(self.results, f, indent=2) leaves in the file
Dump(res) == [complete |-> TRUE, data |-> res]

Truncated == [complete |-> FALSE, data |-> << >>]

\* the outcomes of save_results for a file name: open() fails (always for the
\* empty name), the write fails after the file was truncated, or all is well
SaveOutcomes(filename) ==
    IF filename = "" THEN {"open_fails"} ELSE {"ok", "open_fails", "dump_fails"}

SaveResults ==
    /\ pc = "save"
    /\ \E outcome \in SaveOutcomes(output_file) :
        /\ files' = CASE outcome = "ok" -> (output_file :> Dump(results)) @@ files
                      [] outcome = "dump_fails" -> (output_file :> Truncated) @@ files
                      [] OTHER -> files
        /\ events' = CASE outcome = "ok" -> events \o <<Ev("write"), Ev("saved")>>
                       [] outcome = "dump_fails" -> Append(events, Ev("write"))
                       [] OTHER -> events
        /\ pc' = AfterSave(outcome)
    /\ UNCHANGED <<argv, output_file, results, response, urls, idx, ret,
                   executor, writers>>

\* cat.upper()
LowerToUpper == [c \in Range(UpperToLower) |->
                    CHOOSE C \in DOMAIN UpperToLower : UpperToLower[C] = c]

RECURSIVE Upper(_)
Upper(s) ==
    IF s = "" THEN ""
    ELSE LET c == CharAt(s, 1) IN
         (IF c \in DOMAIN LowerToUpper THEN LowerToUpper[c] ELSE c)
            \o Upper(SubSeq(s, 2, Len(s)))

\* faulty variant: a line for every category, empty or not
SummaryFrom_all(res, order, k) ==
    [j \in 1..Len(order) |->
        [e |-> "summary_line", cat |-> Upper(order[j]), n |-> Len(res[order[j]])]]

\* the lines print_summary prints after its heading: one per category, in the
\* order of the map, whose list is not empty
RECURSIVE SummaryFrom(_, _, _)
SummaryFrom(res, order, k) ==
    IF k > Len(order) THEN <<>>
    ELSE (IF res[order[k]] # <<>>
          THEN <<[e |-> "summary_line", cat |-> Upper(order[k]),
                  n |-> Len(res[order[k]])]>>
          ELSE <<>>) \o SummaryFrom(res, order, k + 1)

PrintSummary ==
    /\ pc = "summary"
    /\ events' = events \o <<Ev("summary")>> \o SummaryFrom(results, ResultsOrder, 1)
    /\ pc' = "exit0"
    /\ UNCHANGED <<argv, output_file, results, response, urls, idx, ret,
                   executor, writers, files>>

Next ==
    \/ Usage
    \/ Construct
    \/ ScanBegin
    \/ Fetch
    \/ ScanEmpty
    \/ ScanPool
    \/ ScanStep
    \/ ScanTypeError
    \/ ScanReturn
    \/ MainBranch
    \/ SaveResults
    \/ PrintSummary

Spec == Init /\ [][Next]_vars

(* ---------------------------------------------------------------------- *)
(* Properties                                                              *)
(* ---------------------------------------------------------------------- *)

SixNames == {"js", "api", "admin", "redirects", "configs", "other"}

\* the order in which the table declares its categories
DeclaredOrder == <<"js", "api", "admin", "redirects", "configs">>

\* some pattern of category c matches u
Matches(c, u) == \E k \in DOMAIN CATEGORIES[c] : Search(CATEGORIES[c][k], u)

\* the first declared category with a matching pattern, "other" if none
FirstMatch(u) ==
    LET m == {k \in DOMAIN DeclaredOrder : Matches(DeclaredOrder[k], u)} IN
    IF m = {} THEN "other"
    ELSE DeclaredOrder[CHOOSE k \in m : \A j \in m : k <= j]

\* the strings a fetch of the modelled responses can return
Strings ==
    {Subscript0(r).val.s :
        r \in {q \in RowUniverse :
                    Subscript0(q).exc = "" /\ Subscript0(q).val.t = "str"}}

\* categorize_url tabulated over those strings, as pairs <<string, category>>
CategoryOf == {<<u, categorize_url(u)>> : u \in Strings}

\* the set of declared positions whose category matches, and the first
\* matching category, tabulated likewise
MatchingOf ==
    {<<u, {k \in DOMAIN DeclaredOrder : Matches(DeclaredOrder[k], u)}>> : u \in Strings}

FirstMatchOf == {<<u, FirstMatch(u)>> : u \in Strings}

\* the strings among the fetched values
FetchedStrings == {urls[k].s : k \in {j \in DOMAIN urls : urls[j].t = "str"}}

FetchDone == pc \notin {"main", "exit1", "scan", "fetch"}

Count(seq, e) == Cardinality({k \in DOMAIN seq : seq[k].e = e})

Has(e) == \E k \in DOMAIN events : events[k].e = e

\* C1: categorize_url returns exactly one of the six names: the first
\* category in declaration order one of whose patterns matches the URL by
\* case-insensitive unanchored search, and "other" exactly when no pattern of
\* any category matches; a URL matching both api and admin is api.
C1_FirstMatchingCategory ==
    /\ FetchedStrings \subseteq Strings
    /\ pc \notin {"main", "exit1"} =>
        \A c \in DOMAIN results : \A i \in DOMAIN results[c] :
            LET u == results[c][i].s IN
            /\ c \in SixNames
            /\ <<u, c>> \in CategoryOf
            /\ <<u, c>> \in FirstMatchOf
            /\ (c = "other") <=> (<<u, {}>> \in MatchingOf)
            /\ \A k \in DOMAIN DeclaredOrder :
                (c = DeclaredOrder[k]) <=>
                    \E m \in SUBSET (DOMAIN DeclaredOrder) :
                        /\ <<u, m>> \in MatchingOf
                        /\ k \in m
                        /\ \A j \in 1..(k - 1) : j \notin m
            /\ u = "http://example.com/api/v1/admin" =>
                (<<u, {2, 3}>> \in MatchingOf /\ c = "api")
            /\ u = "http://x.com/APP.JS?v=2" => c = "js"
            /\ u = "http://x.com/app.jsx" => c = "other"

C1_Witness ==
    /\ pc = "exit0"
    /\ ret
    /\ JStr("http://example.com/api/v1/admin") \in Range(results["api"])
    /\ JStr("http://x.com/app.jsx") \in Range(results["other"])

\* a well-formed response: a JSON array whose first row is a header and whose
\* later rows are arrays with a URL string as first element
WellFormed(r) ==
    /\ r.kind = "json"
    /\ r.body # <<>>
    /\ \A k \in 2..Len(r.body) :
        /\ r.body[k].t = "arr"
        /\ r.body[k].e # <<>>
        /\ r.body[k].e[1].t = "str"

\* the responses that keep the header and permute the rows after it
RowPermutations(r) ==
    LET n == Len(r.body) - 1 IN
    {[r EXCEPT !.body = <<r.body[1]>> \o [k \in 1..n |-> r.body[p[k] + 1]]] :
        p \in {q \in [1..n -> 1..n] : Range(q) = 1..n}}

\* C2: for a well-formed response fetch_urls returns a sequence without
\* repeated elements whose set of elements is exactly the set of first
\* elements of the rows after the header, and every permutation of those rows
\* gives the same set.
C2_FetchDeduplicates ==
    (FetchDone /\ WellFormed(response)) =>
        /\ Cardinality(Range(urls)) = Len(urls)
        /\ Range(urls) = {response.body[k].e[1] : k \in 2..Len(response.body)}
        /\ \A r \in RowPermutations(response) :
            \A l \in fetch_urls(r) : Range(l) = Range(urls)

C2_Witness ==
    /\ FetchDone
    /\ WellFormed(response)
    /\ Len(response.body) = 3
    /\ response.body[2] = response.body[3]
    /\ Len(urls) = 1

\* C3: whenever the fetch fails by a transport error, a timeout, a non-JSON
\* body, or a response with a row after the header that is not an array whose
\* first element is the URL string, fetch_urls returns the empty sequence.
C3_FailureYieldsEmpty ==
    (FetchDone /\ ~WellFormed(response)) => urls = <<>>

\* C4: if the fetch yields zero URLs, scan returns False with every category
\* list still empty, and the run ends without writing the output file and
\* without printing the summary.
C4_EmptyFetchAborts ==
    (FetchDone /\ urls = <<>>) =>
        /\ pc \in {"check", "after_scan", "exit0"}
        /\ ret = FALSE
        /\ \A c \in DOMAIN results : results[c] = <<>>
        /\ files = << >>
        /\ ~Has("write") /\ ~Has("saved")
        /\ ~Has("summary") /\ ~Has("summary_line")

C4_Witness ==
    /\ pc = "exit0"
    /\ urls = <<>>
    /\ response.kind = "json"
    /\ response.body = <<Header>>
    /\ Has("no_urls")

\* C5: from construction of the scanner onward the key set of the result map
\* is exactly the six names; so a completely written output file holds all six
\* keys, a category without URLs being present with an empty list.
C5_SixKeys ==
    /\ pc \notin {"main", "exit1"} => DOMAIN results = SixNames
    /\ \A p \in DOMAIN files : files[p].complete =>
        /\ DOMAIN files[p].data = SixNames
        /\ \A c \in SixNames :
            (\A k \in DOMAIN urls : <<urls[k].s, c>> \notin CategoryOf)
                => files[p].data[c] = <<>>

C5_Witness ==
    /\ \E p \in DOMAIN files :
        /\ files[p].complete
        /\ files[p].data["js"] # <<>>
        /\ files[p].data["other"] = <<>>
        /\ files[p].data["configs"] = <<>>

\* the summary lines printed so far
SummaryLines == SelectSeq(events, LAMBDA ev : ev.e = "summary_line")

RECURSIVE SumN(_)
SumN(seq) == IF seq = <<>> THEN 0 ELSE Head(seq).n + SumN(Tail(seq))

\* C6: print_summary prints one line for a category exactly when its list is
\* not empty, with the length of the list as count; the counts add up to the
\* number of fetched URLs; a category with an empty list has no line although
\* the written file holds it.
C6_SummaryLines ==
    Has("summary") =>
        /\ \A c \in SixNames :
            /\ Cardinality({k \in DOMAIN SummaryLines : SummaryLines[k].cat = Upper(c)})
                  = (IF results[c] # <<>> THEN 1 ELSE 0)
            /\ \A k \in DOMAIN SummaryLines :
                SummaryLines[k].cat = Upper(c) => SummaryLines[k].n = Len(results[c])
            /\ results[c] = <<>> =>
                /\ output_file \in DOMAIN files
                /\ c \in DOMAIN files[output_file].data
                /\ files[output_file].data[c] = <<>>
        /\ \A k \in DOMAIN SummaryLines :
            \E c \in SixNames : SummaryLines[k].cat = Upper(c)
        /\ SumN(SummaryLines) = Len(urls)

C6_Witness ==
    /\ Has("summary")
    /\ Len(SummaryLines) = 2
    /\ results["admin"] # <<>>
    /\ results["redirects"] = <<>>

\* C7: the file is written to wayback_results.json when no --output argument
\* is given, and to exactly the text after the prefix --output= when the
\* argument after the domain is --output=P.
C7_OutputPath ==
    \A p \in DOMAIN files :
        IF Len(argv) > 2 /\ StartsWith(argv[3], "--output=")
        THEN p = SubSeq(argv[3], Len("--output=") + 1, Len(argv[3]))
        ELSE p = DefaultOutput

\* C8: after scan returns True, each category's list is the subsequence of
\* the fetched sequence whose URLs classify to that category, in processing
\* order; every fetched URL is in exactly one list, once, and the lengths add
\* up to the number of fetched URLs.
C8_Partition ==
    ret =>
        /\ \A c \in SixNames :
            results[c] = SelectSeq(urls, LAMBDA u : <<u.s, c>> \in CategoryOf)
        /\ \A k \in DOMAIN urls :
            Cardinality({<<c, j>> \in SixNames \X (1..Len(urls)) :
                            j \in DOMAIN results[c] /\ results[c][j] = urls[k]}) = 1
        /\ SumN([k \in 1..Len(AllCategories) |->
                    [n |-> Len(results[AllCategories[k]])]]) = Len(urls)

C8_Witness ==
    /\ ret
    /\ Len(urls) = 2
    /\ \E c \in SixNames : Len(results[c]) = 2

\* the place of an event in the order of a run, 0 for the other lines
Rank(ev) ==
    CASE ev.e = "progress" -> 1
      [] ev.e = "GET" -> 2
      [] ev.e = "classify" -> 3
      [] ev.e = "write" -> 4
      [] ev.e = "summary" -> 5
      [] OTHER -> 0

\* C9: in a run with a domain argument the events come in the order progress
\* line, GET, classification, file write, summary; there is at most one GET
\* and one file write; the file is not written before every fetched URL is
\* classified, and the summary is not printed before the write has completed.
C9_EventOrder ==
    /\ \A i, j \in DOMAIN events :
        (i < j /\ Rank(events[i]) > 0 /\ Rank(events[j]) > 0)
            => Rank(events[i]) <= Rank(events[j])
    /\ Count(events, "progress") <= 1
    /\ Count(events, "GET") <= 1
    /\ Count(events, "write") <= 1
    /\ Count(events, "summary") <= 1
    /\ Has("GET") => Has("progress")
    /\ Has("classify") => Has("GET")
    /\ Has("write") =>
        /\ Count(events, "classify") = Len(urls)
        /\ \A k \in DOMAIN urls : [e |-> "classify", cat |-> "", n |-> k] \in Range(events)
    /\ Has("summary") =>
        /\ Has("write") /\ Has("saved")
        /\ output_file \in DOMAIN files
        /\ files[output_file].complete
    /\ pc = "exit0" /\ ret => Has("summary")
    /\ Len(argv) < 2 => ~Has("progress") /\ ~Has("GET")

C9_Witness ==
    /\ pc = "exit0"
    /\ Len(urls) = 2
    /\ Has("progress") /\ Has("GET") /\ Has("write") /\ Has("summary")
    /\ Count(events, "classify") = 2

\* C10: a pool of 20 workers is allocated during scan but no task is ever
\* submitted to it: every append to the result map is made by the calling
\* thread, one URL at a time, so no append is lost or reordered.
C10_InertPool ==
    /\ executor.submitted = 0
    /\ executor.state # "none" => executor.max_workers = 20
    /\ writers \subseteq {"MainThread"}
    /\ pc = "loop" =>
        /\ executor.state = "open"
        /\ \A c \in SixNames :
            results[c] = SelectSeq(SubSeq(urls, 1, idx - 1),
                                   LAMBDA u : <<u.s, c>> \in CategoryOf)

C10_Witness ==
    /\ executor.state = "shutdown"
    /\ executor.max_workers = 20
    /\ ret
    /\ Len(urls) = 2
    /\ writers = {"MainThread"}

====
